---- MODULE Spec2Model ----
(***************************************************************************)
(* Model of src/movieapp.py (IMDB Movie Finder): load_data, filter_movies  *)
(* and the body of main (header, ranking, paging, summary statistics).     *)
(*                                                                         *)
(* Conventions of the model                                                *)
(*   - a Python str is a tuple of one-character strings;                   *)
(*   - IMDB_Rating is held in tenths (90 is 9.0); the ratings used are     *)
(*     multiples of 0.5, which binary floating point holds exactly, so     *)
(*     that the model's rounding of a mean agrees with Python's format;    *)
(*   - pandas' missing value is NaN (a value outside every column's        *)
(*     range), Python's None for max_runtime is None;                      *)
(*   - a DataFrame is the sequence of its rows, each row carrying its      *)
(*     index label idx (the 0-based position in the CSV).                  *)
(***************************************************************************)
EXTENDS Integers, Sequences, FiniteSets, TLC

\* ------------------------------------------------------------------ bounds
\* Longest CSV drawn from the row templates.
MaxRows == 3
\* Longest CSV drawn from the row templates when a column is absent.
MaxRowsLacking == 1
\* Length of the long CSV (more rows than the smallest display count).
BigRows == 11
\* Number of slider positions above its minimum that the user may pick.
MaxSliderStep == 4

\* --------------------------------------------------------- special values
\* pandas NaN (a missing cell, a failed regex extraction, the mean of nothing).
NaN == -1
\* Python None, the value of max_runtime under "Any length".
None == -2

\* ------------------------------------------------------------ Python str
Digits == {"0", "1", "2", "3", "4", "5", "6", "7", "8", "9"}

DigitVal(c) ==
  CASE c = "0" -> 0 [] c = "1" -> 1 [] c = "2" -> 2 [] c = "3" -> 3
    [] c = "4" -> 4 [] c = "5" -> 5 [] c = "6" -> 6 [] c = "7" -> 7
    [] c = "8" -> 8 [] c = "9" -> 9

\* Code points of the characters the model's strings use (sorted() compares them).
Ord(c) ==
  CASE c = " " -> 32 [] c = "," -> 44 [] c = "/" -> 47
    [] c \in Digits -> 48 + DigitVal(c)
    [] c = "A" -> 65 [] c = "C" -> 67 [] c = "D" -> 68 [] c = "M" -> 77
    [] c = "N" -> 78 [] c = "a" -> 97 [] c = "c" -> 99 [] c = "d" -> 100
    [] c = "e" -> 101 [] c = "i" -> 105 [] c = "l" -> 108 [] c = "m" -> 109
    [] c = "n" -> 110 [] c = "o" -> 111 [] c = "r" -> 114 [] c = "s" -> 115
    [] c = "u" -> 117 [] c = "y" -> 121

\* int(s) for a string of digits.
RECURSIVE ToInt(_)
ToInt(s) ==
  IF s = <<>> THEN 0
  ELSE 10 * ToInt(SubSeq(s, 1, Len(s) - 1)) + DigitVal(s[Len(s)])

\* Series.str.extract('(\d+)') on one cell: the first (leftmost, greedy) run of
\* digits, or NaN when the cell has none.
ExtractDigits(s) ==
  LET starts == {i \in 1..Len(s) : s[i] \in Digits}
  IN  IF starts = {} THEN <<>>
      ELSE LET b == CHOOSE i \in starts : \A j \in starts : i <= j
               e == CHOOSE k \in b..Len(s) :
                      /\ \A j \in b..k : s[j] \in Digits
                      /\ k = Len(s) \/ s[k + 1] \notin Digits
           IN  SubSeq(s, b, e)

\* str.split(','): the pieces between commas (empty pieces kept).
RECURSIVE Split(_)
Split(s) ==
  LET commas == {i \in 1..Len(s) : s[i] = ","}
  IN  IF commas = {} THEN <<s>>
      ELSE LET c == CHOOSE i \in commas : \A j \in commas : i <= j
           IN  <<SubSeq(s, 1, c - 1)>> \o Split(SubSeq(s, c + 1, Len(s)))

\* str.strip(): leading and trailing whitespace removed.
Strip(s) ==
  LET solid == {i \in 1..Len(s) : s[i] # " "}
  IN  IF solid = {} THEN <<>>
      ELSE LET b == CHOOSE i \in solid : \A j \in solid : i <= j
               e == CHOOSE i \in solid : \A j \in solid : j <= i
           IN  SubSeq(s, b, e)

\* Python's `needle in hay` for two strings: substring containment.
Contains(hay, needle) ==
  \E i \in 0..(Len(hay) - Len(needle)) : SubSeq(hay, i + 1, i + Len(needle)) = needle

\* Python's str < str: lexicographic on code points.
RECURSIVE StrLess(_, _)
StrLess(a, b) ==
  IF b = <<>> THEN FALSE
  ELSE IF a = <<>> THEN TRUE
  ELSE IF a[1] # b[1] THEN Ord(a[1]) < Ord(b[1])
  ELSE StrLess(Tail(a), Tail(b))

\* sorted(list(S)) for a set of strings.
RECURSIVE SortedStrings(_)
SortedStrings(S) ==
  IF S = {} THEN <<>>
  ELSE LET m == CHOOSE x \in S : \A y \in S : x = y \/ StrLess(x, y)
       IN  <<m>> \o SortedStrings(S \ {m})

Range(f) == {f[i] : i \in DOMAIN f}

\* A missing string cell (pandas reads an empty CSV field as NaN).
NaNStr == <<"nan">>

\* ------------------------------------------------------------- the source
\* The columns of imdb_top_1000.csv that load_data, the ranking and the title
\* line of the rendering loop read by name (the other columns the loop shows
\* are taken to be present).
Columns == {"Series_Title", "Released_Year", "Runtime", "Genre", "IMDB_Rating"}

S_Drama == <<"D", "r", "a", "m", "a">>
S_Music == <<"M", "u", "s", "i", "c">>
S_Musical == <<"M", "u", "s", "i", "c", "a", "l">>
S_MusicalDrama == S_Musical \o <<",", " ">> \o S_Drama
S_min == <<" ", "m", "i", "n">>

\* The CSV rows the model draws its sources from.
RowTemplates ==
  { [Series_Title |-> "A", Released_Year |-> 1994, Runtime |-> <<"1", "2", "0">> \o S_min,
     Genre |-> S_Drama, IMDB_Rating |-> 90],
    [Series_Title |-> "B", Released_Year |-> 2003, Runtime |-> <<"9", "5">> \o S_min,
     Genre |-> S_Music, IMDB_Rating |-> 85],
    [Series_Title |-> "C", Released_Year |-> 1999, Runtime |-> <<"N", "/", "A">> \o S_min,
     Genre |-> S_MusicalDrama, IMDB_Rating |-> 70],
    [Series_Title |-> "D", Released_Year |-> 1999, Runtime |-> <<"2", "0", "0">> \o S_min,
     Genre |-> S_MusicalDrama, IMDB_Rating |-> 85],
    [Series_Title |-> "E", Released_Year |-> NaN, Runtime |-> <<"1", "2", "0">> \o S_min,
     Genre |-> NaNStr, IMDB_Rating |-> 90] }

\* Every CSV body of at most n template rows.
RowSeqs(n) == UNION {[1..k -> RowTemplates] : k \in 0..n}

\* Row i of the long CSV: distinct ratings, two decades, two runtimes, two genres.
BigRow(i) ==
  [Series_Title |-> "X", Released_Year |-> 1990 + 10 * (i % 2),
   Runtime |-> (IF i % 3 = 0 THEN <<"9", "5">> ELSE <<"1", "2", "0">>) \o S_min,
   Genre |-> (IF i % 4 = 0 THEN S_Music ELSE S_Drama), IMDB_Rating |-> 40 + 5 * i]

BigSource == [i \in 1..BigRows |-> BigRow(i)]

\* The files the program may find at 'imdb_top_1000.csv': none, a CSV with every
\* column, or a CSV lacking one column.
Sources ==
  {[exists |-> FALSE, columns |-> {}, rows |-> <<>>]}
    \cup {[exists |-> TRUE, columns |-> Columns, rows |-> r] : r \in RowSeqs(MaxRows) \cup {BigSource}}
    \cup {[exists |-> TRUE, columns |-> Columns \ {c}, rows |-> r] : c \in Columns, r \in RowSeqs(MaxRowsLacking)}

\* -------------------------------------------------------------- load_data
\* df['Runtime'].str.extract('(\d+)') for one cell.
RuntimeExtract(runtime) ==
  LET d == ExtractDigits(runtime) IN IF d = <<>> THEN NaN ELSE ToInt(d)

\* (df['Released_Year'] // 10) * 10 for one cell; NaN propagates.
DecadeOf(year) == IF year = NaN THEN NaN ELSE (year \div 10) * 10

\* [g.strip() for g in genres_str.split(',')] as a set.
GenreTokens(genres_str) == {Strip(g) : g \in Range(Split(genres_str))}

\* The union of the tokens of the non-missing Genre cells.
AllGenres(rows) ==
  UNION {GenreTokens(rows[i].Genre) : i \in {j \in DOMAIN rows : rows[j].Genre # NaNStr}}

\* The frame load_data builds: each CSV row with its index label and the two
\* derived columns.
Preprocess(rows) ==
  [i \in DOMAIN rows |->
     [idx |-> i - 1,
      Series_Title |-> rows[i].Series_Title,
      Released_Year |-> rows[i].Released_Year,
      Runtime |-> rows[i].Runtime,
      Genre |-> rows[i].Genre,
      IMDB_Rating |-> rows[i].IMDB_Rating,
      Runtime_Minutes |-> RuntimeExtract(rows[i].Runtime),
      Decade |-> DecadeOf(rows[i].Released_Year)]]

\* Whether the try block of load_data raises: read_csv on a missing file, a
\* column looked up by name and absent, or astype(int) on a column holding NaN.
LoadRaises(src) ==
  \/ ~src.exists
  \/ "Runtime" \notin src.columns
  \/ \E i \in DOMAIN src.rows : RuntimeExtract(src.rows[i].Runtime) = NaN
  \/ "Released_Year" \notin src.columns
  \/ "Genre" \notin src.columns

\* load_data(): (df, sorted genres), or (None, None) with st.error shown.
load_data(src) ==
  IF LoadRaises(src)
  THEN [none |-> TRUE, df |-> <<>>, genres |-> <<>>]
  ELSE [none |-> FALSE, df |-> Preprocess(src.rows),
        genres |-> SortedStrings(AllGenres(src.rows))]

\* ---------------------------------------------------------- filter_movies
\* Mutant of GenreMask: all() where the code has any().
GenreMaskAll(x, selected_genres) ==
  IF x # NaNStr THEN \A genre \in selected_genres : Contains(x, genre) ELSE FALSE

\* The lambda of the genre mask: any(genre in str(x) ...) if pd.notna(x) else False.
GenreMask(x, selected_genres) ==
  IF x # NaNStr THEN \E genre \in selected_genres : Contains(x, genre) ELSE FALSE

\* Mutant of RuntimeMask: the missing value compared as the number that stands
\* for it (as after a fillna), so that a row without runtime passes.
RuntimeMaskNaNPasses(runtime_minutes, max_runtime) == runtime_minutes <= max_runtime

\* filtered_df['Runtime_Minutes'] <= max_runtime for one cell (a comparison with
\* NaN is False).
RuntimeMask(runtime_minutes, max_runtime) ==
  runtime_minutes # NaN /\ runtime_minutes <= max_runtime

\* filtered_df['Decade'].isin(selected_decades) for one cell.
DecadeMask(decade, selected_decades) == decade \in selected_decades

\* Python truthiness of max_runtime: None and 0 are false.
Truthy(max_runtime) == max_runtime # None /\ max_runtime # 0

\* Mutant of filter_movies: the decade mask selects from the unfiltered frame
\* (df[...] where the code has filtered_df[...]).
filter_movies_decades_of_df(frame, selected_genres, max_runtime, selected_decades) ==
  LET by_genre ==
        IF selected_genres # {}
        THEN SelectSeq(frame, LAMBDA row : GenreMask(row.Genre, selected_genres))
        ELSE frame
      by_runtime ==
        IF Truthy(max_runtime)
        THEN SelectSeq(by_genre, LAMBDA row : RuntimeMask(row.Runtime_Minutes, max_runtime))
        ELSE by_genre
  IN  IF selected_decades # {}
      THEN SelectSeq(frame, LAMBDA row : DecadeMask(row.Decade, selected_decades))
      ELSE by_runtime

\* filter_movies: three boolean-mask selections one after the other, each one
\* skipped when its criterion is falsy.
filter_movies(frame, selected_genres, max_runtime, selected_decades) ==
  LET by_genre ==
        IF selected_genres # {}
        THEN SelectSeq(frame, LAMBDA row : GenreMask(row.Genre, selected_genres))
        ELSE frame
      by_runtime ==
        IF Truthy(max_runtime)
        THEN SelectSeq(by_genre, LAMBDA row : RuntimeMask(row.Runtime_Minutes, max_runtime))
        ELSE by_genre
  IN  IF selected_decades # {}
      THEN SelectSeq(by_runtime, LAMBDA row : DecadeMask(row.Decade, selected_decades))
      ELSE by_runtime

\* --------------------------------------------------------------- ranking
\* sort_values('IMDB_Rating', ascending=False) with the default kind
\* ('quicksort', which is not a stable sort): every ordering of the rows by
\* rating, highest first, is a possible result; rows of equal rating may come
\* out in any order.
RECURSIVE SortedOrders(_)
SortedOrders(rows) ==
  IF rows = {} THEN {<<>>}
  ELSE LET top == {r \in rows : \A q \in rows : q.IMDB_Rating <= r.IMDB_Rating}
       IN  UNION {{<<r>> \o rest : rest \in SortedOrders(rows \ {r})} : r \in top}

sort_values(frame) == SortedOrders(Range(frame))

\* ----------------------------------------------------------------- paging
\* The options of the "Movies to display" selectbox.
Limit(n) == [all |-> FALSE, n |-> n]
All == [all |-> TRUE, n |-> 0]
DisplayOptions == {Limit(10), Limit(25), Limit(50), Limit(100), All}

\* DataFrame.head(n): the first n rows, or all but the last -n when n < 0.
head(frame, n) ==
  IF n >= 0
  THEN SubSeq(frame, 1, IF n < Len(frame) THEN n ELSE Len(frame))
  ELSE SubSeq(frame, 1, Len(frame) + n)

\* display_df: head(display_count) unless display_count is "All".
Page(frame, display_count) ==
  IF ~display_count.all THEN head(frame, display_count.n) ELSE frame

\* ------------------------------------------------------ summary statistics
RECURSIVE SumSeq(_)
SumSeq(s) == IF s = <<>> THEN 0 ELSE Head(s) + SumSeq(Tail(s))

\* num/den formatted with no further digits (Python's format rounds the exact
\* quotient to nearest, ties to even).
RoundHalfEven(num, den) ==
  LET q == num \div den
      r == num % den
  IN  IF 2 * r < den THEN q
      ELSE IF 2 * r > den THEN q + 1
      ELSE IF q % 2 = 0 THEN q ELSE q + 1

\* Series.mean(), NaN skipped, then rounded by the format; NaN for no value.
MeanFormatted(values) ==
  LET present == SelectSeq(values, LAMBDA v : v # NaN)
  IN  IF present = <<>> THEN NaN ELSE RoundHalfEven(SumSeq(present), Len(present))

Column(frame, field) == [i \in DOMAIN frame |-> frame[i][field]]

\* f"{filtered_df['IMDB_Rating'].mean():.1f}", in tenths.
AverageRating(frame) == MeanFormatted(Column(frame, "IMDB_Rating"))

\* f"{filtered_df['Runtime_Minutes'].mean():.0f} min".
AverageRuntime(frame) == MeanFormatted(Column(frame, "Runtime_Minutes"))

\* filtered_df['Decade'].mode().iloc[0], or "N/A" (here NaN) when mode() is
\* empty: the smallest of the most frequent non-missing decades.
MostCommonDecade(frame) ==
  LET decades == {frame[i].Decade : i \in DOMAIN frame} \ {NaN}
      count(d) == Cardinality({i \in DOMAIN frame : frame[i].Decade = d})
      modes == {d \in decades : \A e \in decades : count(e) <= count(d)}
  IN  IF modes = {} THEN NaN ELSE CHOOSE d \in modes : \A e \in modes : d <= e

\* The four metrics of the "Summary Statistics" section.
SummaryStatistics(frame) ==
  [average_rating |-> AverageRating(frame),
   average_runtime |-> AverageRuntime(frame),
   most_common_decade |-> MostCommonDecade(frame),
   total_movies |-> Len(frame)]

\* ---------------------------------------------------------------- widgets
\* "Under 2 hours (< 120 min)" sets max_runtime to this.
UnderTwoHours == 120
\* The "Custom max runtime" slider.
SliderMin == 60
SliderMax == 300
SliderStep == 10

SliderValues ==
  {v \in {SliderMin + SliderStep * k : k \in 0..MaxSliderStep} : v <= SliderMax}

\* The values main can give max_runtime.
RuntimeChoices == {None, UnderTwoHours} \cup SliderValues

\* sorted(df['Decade'].unique()), as a set.
AvailableDecades(frame) == {frame[i].Decade : i \in DOMAIN frame}

\* ------------------------------------------------------------------ state
VARIABLES
  source,            \* the file at 'imdb_top_1000.csv'
  pc,                \* where the run of the script is
  df,                \* the frame returned by load_data (<<>> when it is None)
  df_none,           \* load_data returned (None, None)
  genres,            \* the sorted genre vocabulary returned by load_data
  error_shown,       \* st.error("Error loading data: ...") was called
  selected_genres,   \* the genre multiselect
  max_runtime,       \* None or the runtime ceiling
  selected_decades,  \* the decade multiselect
  filtered_df,       \* the result of filter_movies, later ranked in place
  header,            \* <<n>> once "Found n movies ..." is shown, <<>> before
  warning,           \* st.warning("No movies match ...") was shown
  display_count,     \* the "Movies to display" selectbox
  display_df,        \* the rows rendered
  stats,             \* <<metrics>> once the statistics section is shown, <<>> before
  exception          \* the exception that ended the run, "" when none

vars ==
  <<source, pc, df, df_none, genres, error_shown, selected_genres, max_runtime,
    selected_decades, filtered_df, header, warning, display_count, display_df,
    stats, exception>>

\* What every run starts from: nothing loaded, nothing rendered, the widgets at
\* their defaults (no genre, "Any length", no decade, 10 movies).
Blank ==
  /\ df = <<>>
  /\ df_none = FALSE
  /\ genres = <<>>
  /\ error_shown = FALSE
  /\ selected_genres = {}
  /\ max_runtime = None
  /\ selected_decades = {}
  /\ filtered_df = <<>>
  /\ header = <<>>
  /\ warning = FALSE
  /\ display_count = Limit(10)
  /\ display_df = <<>>
  /\ stats = <<>>
  /\ exception = ""

Init ==
  /\ source \in Sources
  /\ pc = "start"
  /\ Blank

\* ------------------------------------------------------------------- main
\* df, genres = load_data() (st.cache_data only spares later runs the call; the
\* value is the one computed here).
Load ==
  /\ pc = "start"
  /\ LET r == load_data(source)
     IN  /\ df' = r.df
         /\ df_none' = r.none
         /\ genres' = r.genres
         /\ error_shown' = r.none
  /\ pc' = "load_returned"
  /\ UNCHANGED <<source, selected_genres, max_runtime, selected_decades, filtered_df,
                 header, warning, display_count, display_df, stats, exception>>

\* if df is None: st.stop()
Stop ==
  /\ pc = "load_returned"
  /\ df_none
  /\ pc' = "stopped"
  /\ UNCHANGED <<source, df, df_none, genres, error_shown, selected_genres, max_runtime,
                 selected_decades, filtered_df, header, warning, display_count,
                 display_df, stats, exception>>

\* The sidebar widgets are read, filter_movies is applied and the header with
\* the number of matches is written.
ApplyFilters ==
  /\ pc = "load_returned"
  /\ ~df_none
  /\ \E sg \in SUBSET Range(genres), mr \in RuntimeChoices,
        sd \in SUBSET AvailableDecades(df) :
       /\ selected_genres' = sg
       /\ max_runtime' = mr
       /\ selected_decades' = sd
       /\ filtered_df' = filter_movies(df, sg, mr, sd)
       /\ header' = <<Len(filter_movies(df, sg, mr, sd))>>
  /\ pc' = "filtered"
  /\ UNCHANGED <<source, df, df_none, genres, error_shown, warning, display_count,
                 display_df, stats, exception>>

\* Mutant of NoMatch: the emptiness test reads the catalog, not the filtered frame.
NoMatchOfCatalog == Len(df) = 0

\* len(filtered_df) == 0
NoMatch == Len(filtered_df) = 0

\* if len(filtered_df) == 0: st.warning(...); return
NoMatches ==
  /\ pc = "filtered"
  /\ NoMatch
  /\ warning' = TRUE
  /\ pc' = "done"
  /\ UNCHANGED <<source, df, df_none, genres, error_shown, selected_genres, max_runtime,
                 selected_decades, filtered_df, header, display_count, display_df,
                 stats, exception>>

\* filtered_df = filtered_df.sort_values('IMDB_Rating', ascending=False)
Rank ==
  /\ pc = "filtered"
  /\ ~NoMatch
  /\ "IMDB_Rating" \in source.columns
  /\ filtered_df' \in sort_values(filtered_df)
  /\ pc' = "ranked"
  /\ UNCHANGED <<source, df, df_none, genres, error_shown, selected_genres, max_runtime,
                 selected_decades, header, warning, display_count, display_df, stats,
                 exception>>

\* sort_values on a frame without the IMDB_Rating column raises KeyError, which
\* main does not catch.
RankKeyError ==
  /\ pc = "filtered"
  /\ ~NoMatch
  /\ "IMDB_Rating" \notin source.columns
  /\ exception' = "KeyError"
  /\ pc' = "crashed"
  /\ UNCHANGED <<source, df, df_none, genres, error_shown, selected_genres, max_runtime,
                 selected_decades, filtered_df, header, warning, display_count,
                 display_df, stats>>

\* The selectbox is read, display_df is cut from the ranked frame and its rows
\* are rendered; movie['Series_Title'] raises KeyError if the column is absent.
Display ==
  /\ pc = "ranked"
  /\ \E dc \in DisplayOptions :
       /\ display_count' = dc
       /\ display_df' = Page(filtered_df, dc)
       /\ IF Page(filtered_df, dc) # <<>> /\ "Series_Title" \notin source.columns
          THEN exception' = "KeyError" /\ pc' = "crashed"
          ELSE exception' = exception /\ pc' = "displayed"
  /\ UNCHANGED <<source, df, df_none, genres, error_shown, selected_genres, max_runtime,
                 selected_decades, filtered_df, header, warning, stats>>

\* Mutant of StatisticsFrame: the metrics read the truncated page.
StatisticsFrameDisplayed == display_df

\* The frame the four metrics are computed from.
StatisticsFrame == filtered_df

\* if len(filtered_df) > 0: the four metrics, computed from filtered_df.
Statistics ==
  /\ pc = "displayed"
  /\ stats' = IF Len(filtered_df) > 0 THEN <<SummaryStatistics(StatisticsFrame)>> ELSE stats
  /\ pc' = "done"
  /\ UNCHANGED <<source, df, df_none, genres, error_shown, selected_genres, max_runtime,
                 selected_decades, filtered_df, header, warning, display_count,
                 display_df, exception>>

Next ==
  \/ Load
  \/ Stop
  \/ ApplyFilters
  \/ NoMatches
  \/ Rank
  \/ RankKeyError
  \/ Display
  \/ Statistics

Spec == Init /\ [][Next]_vars

\* ------------------------------------------------- filter_movies, called alone
\* The frames filter_movies is given when called on its own: any rows with the
\* derived columns, Runtime_Minutes and Decade possibly NaN.
Frames == {Preprocess(r) : r \in RowSeqs(MaxRows)}

GenreNames == {S_Drama, S_Music, S_Musical}
DecadeValues == {1990, 2000, NaN}

FilterInit ==
  /\ source = [exists |-> TRUE, columns |-> Columns, rows |-> <<>>]
  /\ pc = "filter_call"
  /\ df \in Frames
  /\ df_none = FALSE
  /\ genres = <<>>
  /\ error_shown = FALSE
  /\ selected_genres = {}
  /\ max_runtime = None
  /\ selected_decades = {}
  /\ filtered_df = <<>>
  /\ header = <<>>
  /\ warning = FALSE
  /\ display_count = Limit(10)
  /\ display_df = <<>>
  /\ stats = <<>>
  /\ exception = ""

\* filtered_df = filter_movies(df, selected_genres, max_runtime, selected_decades)
CallFilterMovies ==
  /\ pc = "filter_call"
  /\ \E sg \in SUBSET GenreNames, mr \in RuntimeChoices, sd \in SUBSET DecadeValues :
       /\ selected_genres' = sg
       /\ max_runtime' = mr
       /\ selected_decades' = sd
       /\ filtered_df' = filter_movies(df, sg, mr, sd)
  /\ pc' = "filter_returned"
  /\ UNCHANGED <<source, df, df_none, genres, error_shown, header, warning,
                 display_count, display_df, stats, exception>>

FilterNext == CallFilterMovies

FilterSpec == FilterInit /\ [][FilterNext]_vars

\* ------------------------------------------- ranking and paging, called alone
\* The limits the paging step is given when called on its own.
Limits == {Limit(n) : n \in {-1, 0, 1, 10}} \cup {All}

PageInit ==
  /\ source = [exists |-> TRUE, columns |-> Columns, rows |-> <<>>]
  /\ pc = "page_call"
  /\ df = <<>>
  /\ df_none = FALSE
  /\ genres = <<>>
  /\ error_shown = FALSE
  /\ selected_genres = {}
  /\ max_runtime = None
  /\ selected_decades = {}
  /\ filtered_df \in Frames
  /\ header = <<>>
  /\ warning = FALSE
  /\ display_count = Limit(10)
  /\ display_df = <<>>
  /\ stats = <<>>
  /\ exception = ""

\* Lines 120 and 131-134 of main on a given frame and limit: sort_values, then
\* head(display_count) unless it is "All". No check of the limit precedes head.
CallRankAndPage ==
  /\ pc = "page_call"
  /\ \E ranked \in sort_values(filtered_df), dc \in Limits :
       /\ filtered_df' = ranked
       /\ display_count' = dc
       /\ display_df' = Page(ranked, dc)
  /\ pc' = "page_returned"
  /\ UNCHANGED <<source, df, df_none, genres, error_shown, selected_genres, max_runtime,
                 selected_decades, header, warning, stats, exception>>

PageNext == CallRankAndPage

PageSpec == PageInit /\ [][PageNext]_vars

\* ================================================================== claims
\* The row is one of the rows of filtered_df.
Kept(row) == \E k \in DOMAIN filtered_df : filtered_df[k].idx = row.idx

\* The run has applied the filter (whatever happened afterwards).
Filtered == pc \in {"filtered", "ranked", "displayed", "done", "crashed"}

\* The genre, runtime and decade predicates of filter_movies on one row, each
\* one passing every row when its criterion is not set.
PassesGenre(row) == selected_genres = {} \/ GenreMask(row.Genre, selected_genres)
PassesRuntime(row) == ~Truthy(max_runtime) \/ RuntimeMask(row.Runtime_Minutes, max_runtime)
PassesDecade(row) == selected_decades = {} \/ DecadeMask(row.Decade, selected_decades)

\* The selected set is empty or holds one of the row's genre tokens.
ExactGenreMatch(row) ==
  \/ selected_genres = {}
  \/ row.Genre # NaNStr /\ GenreTokens(row.Genre) \cap selected_genres # {}

\* C1 (stated as claimed): a row that passes the runtime and decade predicates
\* is kept by filter_movies iff the selected genre set is empty or shares an
\* exact token with the row's comma-split, trimmed Genre field.
C1_GenreExactTokenMatch ==
  Filtered =>
    \A i \in DOMAIN df :
      (PassesRuntime(df[i]) /\ PassesDecade(df[i])) =>
        (Kept(df[i]) <=> ExactGenreMatch(df[i]))

C3_FilterIsOrderedConjunction ==
  pc = "filtered" =>
    /\ \A k \in DOMAIN filtered_df :
         /\ filtered_df[k].idx + 1 \in DOMAIN df
         /\ filtered_df[k] = df[filtered_df[k].idx + 1]
    /\ \A j, k \in DOMAIN filtered_df : j < k => filtered_df[j].idx < filtered_df[k].idx
    /\ \A i \in DOMAIN df :
         Kept(df[i]) <=> (PassesGenre(df[i]) /\ PassesRuntime(df[i]) /\ PassesDecade(df[i]))

\* C3 witness: all three criteria are set, at least two rows are kept and at
\* least one is dropped.
C3_Witness ==
  /\ pc = "filtered"
  /\ selected_genres # {} /\ max_runtime # None /\ selected_decades # {}
  /\ Len(filtered_df) >= 2
  /\ Len(filtered_df) < Len(df)

\* C4: from the criteria in force, one more genre (on a non-empty genre set) or
\* one more decade (on a non-empty decade set) never yields fewer matches, and
\* a lower ceiling (from a set ceiling) never yields more.
C4_Monotone ==
  pc = "filtered" =>
    /\ selected_genres # {} =>
         \A g \in Range(genres) :
           Len(filter_movies(df, selected_genres \cup {g}, max_runtime, selected_decades))
             >= Len(filtered_df)
    /\ selected_decades # {} =>
         \A d \in AvailableDecades(df) :
           Len(filter_movies(df, selected_genres, max_runtime, selected_decades \cup {d}))
             >= Len(filtered_df)
    /\ max_runtime # None =>
         \A c \in RuntimeChoices \ {None} :
           c <= max_runtime =>
             Len(filter_movies(df, selected_genres, c, selected_decades))
               <= Len(filtered_df)

\* C4 witness: criteria from which one more genre strictly adds matches, one
\* more decade strictly adds matches, and a lower ceiling strictly removes some.
C4_Witness ==
  /\ pc = "filtered"
  /\ selected_genres # {} /\ selected_decades # {} /\ max_runtime # None
  /\ \E g \in Range(genres) :
       Len(filter_movies(df, selected_genres \cup {g}, max_runtime, selected_decades))
         > Len(filtered_df)
  /\ \E d \in AvailableDecades(df) :
       Len(filter_movies(df, selected_genres, max_runtime, selected_decades \cup {d}))
         > Len(filtered_df)
  /\ \E c \in RuntimeChoices \ {None} :
       /\ c < max_runtime
       /\ Len(filter_movies(df, selected_genres, c, selected_decades)) < Len(filtered_df)

\* C5 (stated as claimed): the ranked frame is in descending order of rating
\* and rows of equal rating keep their catalog order.
C5_RankingStable ==
  pc \in {"ranked", "displayed", "done"} =>
    \A j, k \in DOMAIN filtered_df :
      j < k =>
        /\ filtered_df[j].IMDB_Rating >= filtered_df[k].IMDB_Rating
        /\ filtered_df[j].IMDB_Rating = filtered_df[k].IMDB_Rating =>
             filtered_df[j].idx < filtered_df[k].idx

\* C6: the count in the header and the four metrics are those of the whole
\* filtered set, whatever the display limit: they are determined by the catalog
\* and the criteria alone.
C6_StatisticsOverFullFilteredSet ==
  (pc = "done" /\ stats # <<>>) =>
    LET full == filter_movies(df, selected_genres, max_runtime, selected_decades)
    IN  /\ header = <<Len(full)>>
        /\ stats = <<SummaryStatistics(full)>>
        /\ stats[1].total_movies = Len(full)

\* C6 witness: the statistics are shown under a limit that cut the page short.
C6_Witness ==
  /\ pc = "done"
  /\ stats # <<>>
  /\ ~display_count.all
  /\ Len(display_df) = display_count.n
  /\ Len(display_df) < stats[1].total_movies

C9_UnparsableRuntimeKeepsLoad ==
  (pc # "start" /\ source.exists /\ source.columns = Columns) =>
    /\ ~df_none
    /\ Len(df) = Len(source.rows)
    /\ \A i \in DOMAIN df : df[i].Runtime_Minutes = RuntimeExtract(source.rows[i].Runtime)

\* C10 (stated as claimed): with the file missing or a required column absent,
\* load_data returns None, the error is shown and the run stops before the
\* filter: no header, no warning, no row is ever produced.
C10_LoadFailureStops ==
  (pc # "start" /\ (~source.exists \/ source.columns # Columns)) =>
    /\ df_none /\ error_shown /\ df = <<>>
    /\ pc \in {"load_returned", "stopped"}
    /\ header = <<>> /\ ~warning /\ display_df = <<>>

====
